---- MODULE Spec2Model ----
(***************************************************************************)
(* Model of the CSV -> ATIONET batch submission pipeline:                  *)
(*   csv_processor.py     CSVProcessor      (ledgers, record id, loading)   *)
(*   ationet_service.py   ATIONETService    (format, send with retries)     *)
(*   vehicle_processor.py VehicleDataProcessor (runs, batches, summary)     *)
(* Python strings are modelled as sequences of one-character strings, so   *)
(* that strip/upper/lower/substring tests are computed, not assumed.       *)
(***************************************************************************)
EXTENDS Integers, Sequences, FiniteSets, TLC

(* ------------------------------ bounds --------------------------------- *)
\* largest number of rows in the CSV file
MaxRows == 3
\* largest number of successive (non-overlapping) runs of process_all_vehicles
MaxRuns == 2
\* largest number of ledger writes that fail (are swallowed) in a behaviour
MaxWriteFailures == 1
MaxPacingRows == 25

(* ------------------------- program constants --------------------------- *)
REQUEST_RETRIES == 3
BATCH_SIZE == 10
\* a smaller batch size an instance may hold in self.batch_size, so that a
\* CSV of MaxRows rows spans more than one batch
SmallBatch == 2

(* ------------------------------- text ---------------------------------- *)
LowerLetters == <<"a","b","c","d","e","f","g","h","i","j","k","l","m",
                  "n","o","p","q","r","s","t","u","v","w","x","y","z">>
UpperLetters == <<"A","B","C","D","E","F","G","H","I","J","K","L","M",
                  "N","O","P","Q","R","S","T","U","V","W","X","Y","Z">>

PosIn(c, s) == IF \E k \in 1..Len(s) : s[k] = c
               THEN CHOOSE k \in 1..Len(s) : s[k] = c
               ELSE 0

\* str.upper() / str.lower(), character by character
UpperChar(c) == IF PosIn(c, LowerLetters) > 0
                THEN UpperLetters[PosIn(c, LowerLetters)] ELSE c
LowerChar(c) == IF PosIn(c, UpperLetters) > 0
                THEN LowerLetters[PosIn(c, UpperLetters)] ELSE c
upper(t) == [k \in 1..Len(t) |-> UpperChar(t[k])]
lower(t) == [k \in 1..Len(t) |-> LowerChar(t[k])]

\* str.strip(): drops leading and trailing blanks (the only white space
\* in the rows considered)
RECURSIVE lstrip(_)
lstrip(t) == IF t # <<>> /\ Head(t) = " " THEN lstrip(Tail(t)) ELSE t
RECURSIVE rstrip(_)
rstrip(t) == IF t # <<>> /\ t[Len(t)] = " "
             THEN rstrip(SubSeq(t, 1, Len(t) - 1)) ELSE t
strip(t) == rstrip(lstrip(t))

\* the Python test `pat in t`
Contains(t, pat) ==
    \E k \in 0..(Len(t) - Len(pat)) : SubSeq(t, k + 1, k + Len(pat)) = pat

\* str(n) for a natural number
DigitChars == <<"0","1","2","3","4","5","6","7","8","9">>
RECURSIVE IntToText(_)
IntToText(n) == IF n < 10 THEN <<DigitChars[n + 1]>>
                ELSE IntToText(n \div 10) \o <<DigitChars[(n % 10) + 1]>>

\* "_".join(fields)
RECURSIVE join(_, _)
join(sep, fields) ==
    IF fields = <<>> THEN <<>>
    ELSE IF Len(fields) = 1 THEN fields[1]
    ELSE fields[1] \o sep \o join(sep, Tail(fields))

InSeq(x, s) == \E k \in 1..Len(s) : s[k] = x

Pow2(n) == 2 ^ n

(* ------------------------------ CSV rows ------------------------------- *)
\* an empty CSV cell (NaN in the DataFrame)
Null == <<"NaN">>

required_columns == <<"IdVehicleType", "Brand", "Model", "TheoricalConsumption",
                      "IdCompany", "IdFuelMaster", "VolumeLimit">>

Row(t, b, m, c, co, f, v) ==
    [IdVehicleType |-> t, Brand |-> b, Model |-> m, TheoricalConsumption |-> c,
     IdCompany |-> co, IdFuelMaster |-> f, VolumeLimit |-> v]

RowFord == Row(<<"T","1">>, <<"f","o","r","d">>, <<"F","o","c","u","s">>,
               <<"7",".","5">>, <<"C","1">>, <<"F","1">>, <<"6","0">>)
\* the same business key as RowFord, spelled in capitals
RowFORD == Row(<<"T","1">>, <<"F","O","R","D">>, <<"F","O","C","U","S">>,
               <<"7",".","5">>, <<"C","1">>, <<"F","1">>, <<"6","0">>)
RowKia  == Row(<<"T","2">>, <<" ","K","i","a">>, <<"R","i","o"," ">>,
               <<"6">>, <<"C","1">>, <<"F","1">>, <<"4","5">>)
\* TheoricalConsumption is not a number: float() raises ValueError
RowBad  == Row(<<"T","1">>, <<"F","i","a","t">>, <<"U","n","o">>,
               <<"x">>, <<"C","1">>, <<"F","1">>, <<"4","0">>)
\* a row with an empty Brand cell: dropped by dropna
RowNull == Row(<<"T","3">>, Null, <<"K","a">>,
               <<"5">>, <<"C","1">>, <<"F","1">>, <<"4","0">>)

MasterRows == <<RowFord, RowBad, RowFORD, RowKia, RowNull>>

\* the CSV files considered: sub-lists of MasterRows of at most MaxRows rows
RECURSIVE Pick(_, _)
Pick(S, k) == IF k > Len(MasterRows) THEN <<>>
              ELSE IF k \in S THEN <<MasterRows[k]>> \o Pick(S, k + 1)
              ELSE Pick(S, k + 1)
CsvFiles == { Pick(S, 1) : S \in { T \in SUBSET (1..Len(MasterRows)) :
                                      Cardinality(T) <= MaxRows } }

(* ------------------- csv_processor.py: CSVProcessor -------------------- *)
\* df.dropna(subset=required_columns)
HasNull(row) == \E col \in DOMAIN row : row[col] = Null
dropna(rows) == SelectSeq(rows, LAMBDA r : ~HasNull(r))

\* the CSV file at Config.CSV_FILE_PATH: whether it exists, its header and
\* its rows
CsvSource(exists, columns, rows) ==
    [exists |-> exists, columns |-> columns, rows |-> rows]

MsgCsvNotFound == <<"A","r","c","h","i","v","o"," ","C","S","V"," ","n","o"," ","e","n","c","o","n","t","r","a","d","o">>
MsgMissingColumns == <<"C","o","l","u","m","n","a","s"," ","f","a","l","t","a","n","t","e","s"," ","e","n"," ","e","l"," ","C","S","V">>

\* missing_columns = [col for col in required_columns if col not in df.columns]
missing_columns(file) ==
    SelectSeq(required_columns, LAMBDA col : col \notin file.columns)

\* mutant: the header of the file is not validated
load_csv_data_unvalidated(file) == [ok |-> TRUE, df |-> dropna(file.rows)]

\* load_csv_data: the rows left after the cleaning; FileNotFoundError when
\* the file is missing and ValueError when a required column is, both
\* logged and raised again
load_csv_data(file) ==
    IF ~file.exists
    THEN [ok |-> FALSE, error |-> MsgCsvNotFound]
    ELSE IF missing_columns(file) # <<>>
    THEN [ok |-> FALSE, error |-> MsgMissingColumns]
    ELSE [ok |-> TRUE, df |-> dropna(file.rows)]

\* mutant: Brand and Model enter the id as they are spelled
create_record_id_verbatim(row) ==
    join(<<"_">>, << row.IdVehicleType, row.Brand, row.Model,
                    row.IdCompany, row.IdFuelMaster >>)

\* create_record_id: str(...) of the five key fields, Brand and Model
\* stripped and upper-cased, joined with "_"
create_record_id(row) ==
    join(<<"_">>, << row.IdVehicleType,
                    upper(strip(row.Brand)),
                    upper(strip(row.Model)),
                    row.IdCompany,
                    row.IdFuelMaster >>)

\* the processed ledger file before its first write
NoProcessedFile ==
    [exists |-> FALSE, corrupt |-> FALSE, processed_ids |-> <<>>, records |-> <<>>]
\* a processed ledger file that json.load cannot parse
CorruptProcessedFile ==
    [exists |-> TRUE, corrupt |-> TRUE, processed_ids |-> <<>>, records |-> <<>>]
\* the failed ledger file before its first write
NoFailedFile == [exists |-> FALSE, corrupt |-> FALSE, failed_records |-> <<>>]
\* a failed ledger file that json.load cannot parse
CorruptFailedFile == [exists |-> TRUE, corrupt |-> TRUE, failed_records |-> <<>>]

\* get_processed_records: the ids of the file, [] when there is no file and,
\* by the except clause, [] when the file cannot be read
get_processed_records(file) ==
    IF file.exists /\ ~file.corrupt THEN file.processed_ids ELSE <<>>

\* mutant: the existing file is not read back before the write
save_processed_record_fresh(file, record_id, record_data, now, writes) ==
    IF writes
    THEN [exists |-> TRUE, corrupt |-> FALSE, processed_ids |-> <<record_id>>,
          records |-> << [id |-> record_id, data |-> record_data,
                          processed_at |-> now] >>]
    ELSE file

\* mutant: the id is appended without the membership test
save_processed_record_always(file, record_id, record_data, now, writes) ==
    LET ids0 == IF file.exists THEN file.processed_ids ELSE <<>>
        rec0 == IF file.exists THEN file.records ELSE <<>>
    IN  IF writes /\ ~(file.exists /\ file.corrupt)
        THEN [exists |-> TRUE, corrupt |-> FALSE,
              processed_ids |-> Append(ids0, record_id),
              records |-> Append(rec0, [id |-> record_id, data |-> record_data,
                                        processed_at |-> now])]
        ELSE file

\* save_processed_record: read the whole file, append id and entry unless
\* the id is there, write the whole file back.  writes = FALSE: open(.., 'w')
\* raises, the except clause logs and the file is left as it was.  A file
\* that cannot be parsed makes json.load raise: same except clause, no write.
save_processed_record(file, record_id, record_data, now, writes) ==
    LET ids0 == IF file.exists THEN file.processed_ids ELSE <<>>
        rec0 == IF file.exists THEN file.records ELSE <<>>
        new  == ~InSeq(record_id, ids0)
        ids1 == IF new THEN Append(ids0, record_id) ELSE ids0
        rec1 == IF new
                THEN Append(rec0, [id |-> record_id, data |-> record_data,
                                   processed_at |-> now])
                ELSE rec0
    IN  IF writes /\ ~(file.exists /\ file.corrupt)
        THEN [exists |-> TRUE, corrupt |-> FALSE,
              processed_ids |-> ids1, records |-> rec1]
        ELSE file

\* mutant: an id that is already in the failed ledger is not entered again
save_failed_record_once(file, record_id, record_data, error_message, now, writes) ==
    LET old == IF file.exists THEN file.failed_records ELSE <<>>
        new == \A k \in 1..Len(old) : old[k].id # record_id
    IN  IF writes /\ ~(file.exists /\ file.corrupt)
        THEN [exists |-> TRUE, corrupt |-> FALSE,
              failed_records |->
                  IF new THEN Append(old, [id |-> record_id,
                                           data |-> record_data,
                                           error |-> error_message,
                                           failed_at |-> now])
                  ELSE old]
        ELSE file

\* save_failed_record: read the whole file, append one entry, write it back;
\* any exception (the file cannot be parsed, open(.., 'w') raises) is logged
\* and the file is left as it was
save_failed_record(file, record_id, record_data, error_message, now, writes) ==
    LET old == IF file.exists THEN file.failed_records ELSE <<>>
    IN  IF writes /\ ~(file.exists /\ file.corrupt)
        THEN [exists |-> TRUE, corrupt |-> FALSE,
              failed_records |-> Append(old, [id |-> record_id,
                                              data |-> record_data,
                                              error |-> error_message,
                                              failed_at |-> now])]
        ELSE file

\* mutant: the ids of the processed ledger are not looked at
get_unprocessed_records_unfiltered(file, ledger) ==
    LET loaded == load_csv_data(file)
        df == loaded.df
    IN  IF loaded.ok
        THEN [ok |-> TRUE,
              records |-> [k \in 1..Len(df) |->
                             [record_id |-> create_record_id(df[k]),
                              record_data |-> df[k]]]]
        ELSE [ok |-> FALSE, error |-> loaded.error]

\* get_unprocessed_records: (record_id, record_data) of every cleaned row
\* whose id is not in the processed ledger, in CSV row order; the exception
\* of load_csv_data is logged and raised again
get_unprocessed_records(file, ledger) ==
    LET loaded == load_csv_data(file)
        df == loaded.df
        processed_ids == get_processed_records(ledger)
        all == [k \in 1..Len(df) |->
                   [record_id |-> create_record_id(df[k]), record_data |-> df[k]]]
    IN  IF loaded.ok
        THEN [ok |-> TRUE,
              records |-> SelectSeq(all, LAMBDA e :
                                         ~InSeq(e.record_id, processed_ids))]
        ELSE [ok |-> FALSE, error |-> loaded.error]

(* ------------------ ationet_service.py: ATIONETService ----------------- *)
\* float(text) succeeds: digits with at most one decimal point (the cells of
\* the rows above are either of this shape or plainly non-numeric)
IsDigit(c) == PosIn(c, DigitChars) > 0
ParsesAsFloat(t) ==
    /\ \E k \in 1..Len(t) : IsDigit(t[k])
    /\ \A k \in 1..Len(t) : IsDigit(t[k]) \/ t[k] = "."
    /\ Cardinality({k \in 1..Len(t) : t[k] = "."}) <= 1

\* float(text): the value as digits without the point and the number of
\* digits after the point
RECURSIVE DigitsValue(_)
DigitsValue(t) == IF t = <<>> THEN 0
                  ELSE 10 * DigitsValue(SubSeq(t, 1, Len(t) - 1))
                       + (PosIn(t[Len(t)], DigitChars) - 1)
float(t) ==
    LET digits == SelectSeq(t, IsDigit)
        point  == PosIn(".", t)
    IN  [mantissa |-> DigitsValue(digits),
         decimals |-> IF point = 0 THEN 0 ELSE Len(t) - point]

MsgCouldNotConvert ==
  <<"c","o","u","l","d"," ","n","o","t"," ","c","o","n","v","e","r","t"," ",
      "s","t","r","i","n","g"," ","t","o"," ","f","l","o","a","t",":"," ">>
MsgFormatError ==
  <<"E","r","r","o","r"," ","f","o","r","m","a","t","e","a","n","d","o"," ",
      "d","a","t","o","s"," ","d","e"," ","l","a"," ","f","i","l","a",":",
      " ">>

\* format_vehicle_data: the wire record, or the ValueError it raises
format_vehicle_data(row_data) ==
    IF ~ParsesAsFloat(row_data.TheoricalConsumption)
    THEN [ok |-> FALSE,
          error |-> MsgFormatError \o MsgCouldNotConvert
                    \o <<"'">> \o row_data.TheoricalConsumption \o <<"'">>]
    ELSE IF ~ParsesAsFloat(row_data.VolumeLimit)
    THEN [ok |-> FALSE,
          error |-> MsgFormatError \o MsgCouldNotConvert
                    \o <<"'">> \o row_data.VolumeLimit \o <<"'">>]
    ELSE [ok |-> TRUE,
          data |-> [IdVehicleType |-> row_data.IdVehicleType,
                    Brand |-> row_data.Brand,
                    Model |-> row_data.Model,
                    TheoricalConsumption |-> float(row_data.TheoricalConsumption),
                    IdCompany |-> row_data.IdCompany,
                    VehiclesClassesFuelsMaster |->
                        << [IdFuelMaster |-> row_data.IdFuelMaster,
                            VolumeLimit |-> float(row_data.VolumeLimit)] >>]]

\* what one requests.post(...) can come back with
HttpResponse(status, text) == [kind |-> "http", status |-> status, text |-> text]
TimeoutRaised    == [kind |-> "timeout",    status |-> 0, text |-> <<>>]
ConnectionRaised == [kind |-> "connection", status |-> 0, text |-> <<>>]
OtherRaised(text) == [kind |-> "exception", status |-> 0, text |-> text]

MsgDuplicate ==
  <<"D","a","t","o","s"," ","d","u","p","l","i","c","a","d","o","s"," ","o",
      " ","c","o","n","f","l","i","c","t","o",":"," ">>
MsgClient ==
  <<"E","r","r","o","r"," ","d","e","l"," ","c","l","i","e","n","t","e"," ",
      "(">>
MsgServer ==
  <<"E","r","r","o","r"," ","d","e","l"," ","s","e","r","v","i","d","o","r",
      " ","(">>
MsgCloseParen ==
  <<")",":"," ">>
MsgTimeoutFinal ==
  <<"T","i","m","e","o","u","t"," ","d","e","s","p","u","é","s"," ","d","e",
      " ","m","ú","l","t","i","p","l","e","s"," ","i","n","t","e","n","t",
      "o","s">>
MsgConnectionFinal ==
  <<"E","r","r","o","r"," ","d","e"," ","c","o","n","e","x","i","ó","n"," ",
      "d","e","s","p","u","é","s"," ","d","e"," ","m","ú","l","t","i","p",
      "l","e","s"," ","i","n","t","e","n","t","o","s">>
MsgUnexpected ==
  <<"E","r","r","o","r"," ","i","n","e","s","p","e","r","a","d","o",":"," ">>
MsgNoAttempt ==
  <<"E","r","r","o","r"," ","d","e","s","p","u","é","s"," ","d","e"," ","m",
      "ú","l","t","i","p","l","e","s"," ","i","n","t","e","n","t","o","s">>

\* mutant: the client-error test is `> 400`
StatusBranchOffByOne(status) ==
    IF status = 200 \/ status = 201 THEN "success"
    ELSE IF status = 409 THEN "duplicate"
    ELSE IF status > 400 THEN "client"
    ELSE "server"

\* the if/elif chain on response.status_code, in the order of the code
StatusBranch(status) ==
    IF status = 200 \/ status = 201 THEN "success"
    ELSE IF status = 409 THEN "duplicate"
    ELSE IF status >= 400 THEN "client"
    ELSE "server"

\* the result tuple (success, error); error = <<>> stands for None, which
\* the caller only tests for truth. The response element of the tuple is
\* left out: _process_batch never reads it.
Succeeded == [success |-> TRUE, error |-> <<>>]
Failed(error_msg) == [success |-> FALSE, error |-> error_msg]

\* mutant: the retry test is `attempt < self.retries`
MayRetryOffByOne(attempt) == attempt < REQUEST_RETRIES

\* `if attempt < self.retries - 1` of the three retrying branches
MayRetry(attempt) == attempt < REQUEST_RETRIES - 1

\* wait_time = 2 ** attempt
Backoff(attempt) == Pow2(attempt)

\* one pass of the loop body of send_vehicle_data on response r in attempt
\* number `attempt` (from 0): either it returns a result, or it sleeps and
\* continues with the next attempt
AttemptOutcome(r, attempt) ==
    LET retry == [returns |-> FALSE, result |-> Succeeded, sleep |-> Backoff(attempt)]
        return(res) == [returns |-> TRUE, result |-> res, sleep |-> 0]
    IN  CASE r.kind = "http" /\ StatusBranch(r.status) = "success" ->
               return(Succeeded)
          [] r.kind = "http" /\ StatusBranch(r.status) = "duplicate" ->
               return(Failed(MsgDuplicate \o r.text))
          [] r.kind = "http" /\ StatusBranch(r.status) = "client" ->
               return(Failed(MsgClient \o IntToText(r.status)
                             \o MsgCloseParen \o r.text))
          [] r.kind = "http" /\ StatusBranch(r.status) = "server" ->
               IF MayRetry(attempt) THEN retry
               ELSE return(Failed(MsgServer \o IntToText(r.status)
                                  \o MsgCloseParen \o r.text))
          [] r.kind = "timeout" ->
               IF MayRetry(attempt) THEN retry
               ELSE return(Failed(MsgTimeoutFinal))
          [] r.kind = "connection" ->
               IF MayRetry(attempt) THEN retry
               ELSE return(Failed(MsgConnectionFinal))
          [] OTHER ->
               return(Failed(MsgUnexpected \o r.text))

(* ------------- vehicle_processor.py: VehicleDataProcessor -------------- *)
MarkDuplicate == <<"d","u","p","l","i","c","a","t","e">>
MarkConflict  == <<"c","o","n","f","l","i","c","t">>
Mark409       == <<"4","0","9">>
MsgProcessing ==
  <<"E","r","r","o","r"," ","p","r","o","c","e","s","a","n","d","o"," ">>
MsgUnexpectedProcessing ==
  <<"E","r","r","o","r"," ","i","n","e","s","p","e","r","a","d","o"," ","p",
      "r","o","c","e","s","a","n","d","o"," ">>
MsgColon == <<":"," ">>
MsgUnknown ==
  <<"E","r","r","o","r"," ","d","e","s","c","o","n","o","c","i","d","o">>

\* mutant: the markers are looked up without lower()
is_duplicate_error_cs(error) ==
    /\ error # <<>>
    /\ \/ Contains(error, MarkDuplicate)
       \/ Contains(error, MarkConflict)
       \/ Contains(error, Mark409)

\* `error and ("duplicate" in error.lower() or "conflict" in error.lower()
\*  or "409" in error)`
is_duplicate_error(error) ==
    /\ error # <<>>
    /\ \/ Contains(lower(error), MarkDuplicate)
       \/ Contains(lower(error), MarkConflict)
       \/ Contains(error, Mark409)

\* `error or "Error desconocido"`
error_or_unknown(error) == IF error # <<>> THEN error ELSE MsgUnknown

\* (processing_time_seconds, a wall-clock reading, is left out)
NewSummary == [total_records |-> 0, processed_successfully |-> 0,
               failed_records |-> 0, skipped_duplicates |-> 0, errors |-> <<>>]
NewBatchSummary == [processed_successfully |-> 0, failed_records |-> 0,
                    skipped_duplicates |-> 0, errors |-> <<>>]

\* the remote's possible answers to one POST
TextNone     == <<>>
TextBad      == <<"b","a","d">>
TextDUPLICATE == <<"D","U","P","L","I","C","A","T","E">>
TextConflict == <<"C","o","n","f","l","i","c","t">>
\* a body that merely holds the digits 409
Text409      == <<"i","d"," ","4","0","9","7">>
Statuses == {200, 201, 204, 400, 404, 409, 500, 503}
Texts == {TextNone, TextBad, TextDUPLICATE, TextConflict, Text409}
AllResponses ==
    { HttpResponse(s, t) : s \in Statuses, t \in Texts }
    \cup { TimeoutRaised, ConnectionRaised, OtherRaised(TextBad) }
\* the answers considered when several records and runs are followed: the
\* remote accepts a record, reports it as a duplicate or rejects it
RunResponses ==
    { HttpResponse(200, TextNone), HttpResponse(409, TextNone),
      HttpResponse(400, TextBad) }
\* the answers considered when status requests come between the runs
StatusResponses == { HttpResponse(200, TextNone), HttpResponse(400, TextBad) }

(* ------------------------------- state --------------------------------- *)
VARIABLES
    csv,             \* the rows of the CSV file
    csv_exists,      \* whether the CSV file exists
    csv_columns,     \* the columns in the header of the CSV file
    batch_size,      \* VehicleDataProcessor.batch_size
    processed_file,  \* the processed ledger (*_processed.json)
    failed_file,     \* the failed ledger (*_failed.json)
    clock,           \* pd.Timestamp.now(), one tick per ledger call
    run,             \* number of runs of process_all_vehicles started
    pc,              \* position of the current run
    unprocessed,     \* unprocessed_records of the current run
    i,               \* start index of the current batch (loop variable i)
    j,               \* position in the current batch, from 1
    summary,         \* summary of the current run
    batch_summary,   \* batch_summary of the current batch
    payload,         \* <<formatted_data>> while it is being sent
    attempt,         \* loop variable of send_vehicle_data
    result,          \* (success, error) returned by send_vehicle_data
    sleeps,          \* time.sleep waits of the current send_vehicle_data call
    naps,            \* time.sleep(0.1) pauses of the current run
    pauses,          \* time.sleep(1) pauses between batches of the current run
    received,        \* history: answers received in the current send call
    posts,           \* history: requests.post calls started in the current run
    visits,          \* history: times each unprocessed entry was taken up
    outcomes,        \* history: outcome of each record finished in this run
    accepted,        \* history: per id, Success/Duplicate outcomes so far
    writeFailures,   \* history: ledger writes that failed so far
    lastSave,        \* history: the last ledger call made
    reply,           \* answer of POST /api/process to the current run
    last_status,     \* dict returned by the latest get_processing_status
    racers,          \* the two overlapping runs: position, index, data read
    idcheck          \* two rows, their record ids and the filtering of one

vars == << csv, csv_exists, csv_columns, batch_size, processed_file,
           failed_file, clock, run, pc, unprocessed, i, j, summary,
           batch_summary, payload, attempt, result, sleeps, naps, pauses,
           received, posts, visits, outcomes, accepted, writeFailures, lastSave,
           reply, last_status, racers, idcheck >>

\* the CSV file, never written by the program
sourceVars == << csv, csv_exists, csv_columns >>

ledgerVars == << processed_file, failed_file, clock, writeFailures, lastSave >>
sendVars   == << payload, attempt, result, sleeps, received >>
runVars    == << run, unprocessed, i, summary, pauses >>

Min(a, b) == IF a <= b THEN a ELSE b

\* mutant: the slice takes one record more than the step of the loop
BatchOneMore ==
    SubSeq(unprocessed, i + 1, Min(i + batch_size + 1, Len(unprocessed)))

\* batch = unprocessed_records[i:i + self.batch_size]
Batch == SubSeq(unprocessed, i + 1, Min(i + batch_size, Len(unprocessed)))
\* the (record_id, record_data) the loop of _process_batch is at
Current == Batch[j]

\* the CSV file as load_csv_data finds it
TheCsv == CsvSource(csv_exists, csv_columns, csv)

ValidIds == { create_record_id(dropna(csv)[k]) : k \in 1..Len(dropna(csv)) }

NoSave == [op |-> "none", id |-> <<>>, present |-> FALSE, written |-> FALSE]

(* ----------------------- app.py: POST /api/process ---------------------- *)
\* how a call ended: with a value or with an exception
Returned(value) == [raised |-> FALSE, value |-> value]
Raised(error) == [raised |-> TRUE, error |-> error]

\* process_vehicles: jsonify(result), or {"error": ...} with 500 when
\* process_all_vehicles raises
process_vehicles(outcome) ==
    IF outcome.raised
    THEN [code |-> 500, json |-> [error |-> outcome.error]]
    ELSE [code |-> 200, json |-> outcome.value]

\* no answer yet
NoReply == [code |-> 0, json |-> <<>>]

MsgGeneral == <<"E","r","r","o","r"," ","e","n"," ","p","r","o","c","e","s","a","m","i","e","n","t","o"," ","g","e","n","e","r","a","l",":"," ">>

\* mutant: the except clause reports the count of the ledger
get_processing_status_counting(file, ledger) ==
    LET loaded == load_csv_data(file)
        processed_count == Len(get_processed_records(ledger))
    IN  IF loaded.ok
        THEN [total_records |-> Len(loaded.df),
              processed_records |-> processed_count,
              pending_records |->
                  Len(get_unprocessed_records(file, ledger).records),
              completion_percentage |->
                  IF Len(loaded.df) > 0
                  THEN [count |-> processed_count, of |-> Len(loaded.df)]
                  ELSE [count |-> 0, of |-> 1]]
        ELSE [error |-> loaded.error,
              total_records |-> 0,
              processed_records |-> processed_count,
              pending_records |-> 0,
              completion_percentage |-> [count |-> 0, of |-> 1]]

\* get_processing_status: the four figures, or the error dict of the except
\* clause; the percentage is kept as the fraction count / total it rounds
get_processing_status(file, ledger) ==
    LET loaded == load_csv_data(file)
        total_records == Len(loaded.df)
        processed_count == Len(get_processed_records(ledger))
        pending_count == Len(get_unprocessed_records(file, ledger).records)
    IN  IF loaded.ok
        THEN [total_records |-> total_records,
              processed_records |-> processed_count,
              pending_records |-> pending_count,
              completion_percentage |->
                  IF total_records > 0
                  THEN [count |-> processed_count, of |-> total_records]
                  ELSE [count |-> 0, of |-> 1]]
        ELSE [error |-> loaded.error,
              total_records |-> 0,
              processed_records |-> 0,
              pending_records |-> 0,
              completion_percentage |-> [count |-> 0, of |-> 1]]

\* no status asked for since the latest run began
NoStatus == [asked |-> FALSE, dict |-> <<>>]

\* the two overlapping runs and the row pair are not in use
NoRacers == <<>>
NoIdCheck == [stage |-> "unused"]

(* ------------------------------ initial states -------------------------- *)
\* CSV files that exist and have every required column
Healthy(files) ==
    { CsvSource(TRUE, {required_columns[k] : k \in 1..Len(required_columns)}, f) :
         f \in files }
\* a CSV file that does not exist
Missing == CsvSource(FALSE, {}, <<>>)
\* CSV files whose header lacks one required column
Headless(files) ==
    { CsvSource(TRUE, {required_columns[k] : k \in 1..Len(required_columns)}
                         \ {required_columns[m]}, f) :
         f \in files, m \in 1..Len(required_columns) }

InitRun(sources, sizes, ledgers, failures) ==
    /\ \E src \in sources : /\ csv = src.rows
                            /\ csv_exists = src.exists
                            /\ csv_columns = src.columns
    /\ batch_size \in sizes
    /\ processed_file \in ledgers
    /\ failed_file \in failures
    /\ clock = 0
    /\ run = 0
    /\ pc = "idle"
    /\ unprocessed = <<>>
    /\ i = 0
    /\ j = 0
    /\ summary = NewSummary
    /\ batch_summary = NewBatchSummary
    /\ payload = <<>>
    /\ attempt = 0
    /\ result = Succeeded
    /\ sleeps = <<>>
    /\ naps = 0
    /\ pauses = 0
    /\ received = <<>>
    /\ posts = 0
    /\ visits = <<>>
    /\ outcomes = <<>>
    /\ accepted = [id \in ValidIds |-> 0]
    /\ writeFailures = 0
    /\ lastSave = NoSave
    /\ reply = NoReply
    /\ last_status = NoStatus

\* one run at a time: the overlapping runs and the row pair are not in use
InitOn(sources, sizes, ledgers, failures) ==
    /\ InitRun(sources, sizes, ledgers, failures)
    /\ racers = NoRacers
    /\ idcheck = NoIdCheck

\* a CSV file in order and no ledger yet
InitWith(files, sizes) ==
    InitOn(Healthy(files), sizes, {NoProcessedFile}, {NoFailedFile})

Init == InitOn(Healthy(CsvFiles) \cup {Missing} \cup Headless(CsvFiles),
               {SmallBatch, BATCH_SIZE}, {NoProcessedFile}, {NoFailedFile})

\* whether the next ledger write goes through
WriteChoices(maxFailures) ==
    IF writeFailures < maxFailures THEN {TRUE, FALSE} ELSE {TRUE}

(* ------------------------------ actions -------------------------------- *)
\* process_all_vehicles, up to the batch loop: load the unprocessed records;
\* an exception of the loading is caught by the outer `except Exception`,
\* added to the errors of the summary, and the summary is returned
StartRun(maxRuns) ==
    /\ pc \in {"idle", "done"}
    /\ run < maxRuns
    /\ LET g == get_unprocessed_records(TheCsv, processed_file)
           u == IF g.ok THEN g.records ELSE <<>>
           s == IF g.ok
                THEN [NewSummary EXCEPT !.total_records = Len(u)]
                ELSE [NewSummary EXCEPT !.errors = <<MsgGeneral \o g.error>>]
       IN  /\ unprocessed' = u
           /\ summary' = s
           /\ visits' = [k \in 1..Len(u) |-> 0]
           /\ pc' = IF u = <<>> THEN "done" ELSE "batch"
           /\ reply' = IF u = <<>> THEN process_vehicles(Returned(s)) ELSE NoReply
    /\ run' = run + 1
    /\ i' = 0
    /\ j' = 0
    /\ batch_summary' = NewBatchSummary
    /\ outcomes' = <<>>
    /\ posts' = 0
    /\ naps' = 0
    /\ pauses' = 0
    /\ payload' = <<>>
    /\ attempt' = 0
    /\ result' = Succeeded
    /\ sleeps' = <<>>
    /\ received' = <<>>
    /\ last_status' = NoStatus
    /\ UNCHANGED << batch_size, accepted, racers, idcheck >>
    /\ UNCHANGED ledgerVars
    /\ UNCHANGED sourceVars

\* one iteration of the batch loop begins: _process_batch(batch) is entered
BeginBatch ==
    /\ pc = "batch"
    /\ batch_summary' = NewBatchSummary
    /\ j' = 1
    /\ pc' = "record"
    /\ UNCHANGED << batch_size, naps, posts, visits, outcomes, accepted,
                    reply, last_status, racers, idcheck >>
    /\ UNCHANGED ledgerVars
    /\ UNCHANGED sendVars
    /\ UNCHANGED runVars
    /\ UNCHANGED sourceVars

\* mutant: _process_batch returns from inside its loop
AfterRecordReturns == "endbatch"

\* where _process_batch goes after the record at position j
AfterRecord == IF j < Len(Batch) THEN "record" ELSE "endbatch"
NextJ == IF j < Len(Batch) THEN j + 1 ELSE j

\* mutant: a ledger call whose write failed raises into _process_batch and
\* ends the batch
AfterSaveRaises(writes) == IF writes THEN AfterRecord ELSE "endbatch"

\* where _process_batch goes after save_processed_record or
\* save_failed_record: their except clauses let nothing out, so the loop
\* goes on whether the write went through or not
AfterSave(writes) == AfterRecord

\* the record is taken up and formatted; a ValueError of the formatting is
\* caught by `except Exception`: counted as failed and saved as failed
FormatRecord(maxFailures) ==
    /\ pc = "record"
    /\ visits' = [visits EXCEPT ![i + j] = @ + 1]
    /\ LET f == format_vehicle_data(Current.record_data)
       IN  IF f.ok
           THEN /\ payload' = <<f.data>>
                /\ attempt' = 0
                /\ sleeps' = <<>>
                /\ received' = <<>>
                /\ pc' = "send"
                /\ UNCHANGED << j, batch_summary, result, outcomes >>
                /\ UNCHANGED ledgerVars
           ELSE /\ \E writes \in WriteChoices(maxFailures) :
                     /\ failed_file' = save_failed_record(failed_file,
                                            Current.record_id, Current.record_data,
                                            f.error, clock, writes)
                     /\ writeFailures' = IF writes THEN writeFailures
                                         ELSE writeFailures + 1
                     /\ lastSave' = [op |-> "failed", id |-> Current.record_id,
                                     present |-> FALSE, written |-> writes]
                     /\ pc' = AfterSave(writes)
                /\ clock' = clock + 1
                /\ batch_summary' =
                      [batch_summary EXCEPT
                         !.errors = Append(@, MsgUnexpectedProcessing
                                              \o Current.record_id \o MsgColon
                                              \o f.error),
                         !.failed_records = @ + 1]
                /\ outcomes' = Append(outcomes, "exception")
                /\ received' = <<>>
                /\ j' = NextJ
                /\ UNCHANGED << processed_file, payload, attempt, result, sleeps >>
    /\ UNCHANGED << batch_size, naps, posts, accepted, reply, last_status,
                    racers, idcheck >>
    /\ UNCHANGED runVars
    /\ UNCHANGED sourceVars

\* send_vehicle_data: the loop starts its next attempt with requests.post
StartAttempt ==
    /\ pc = "send"
    /\ IF attempt < REQUEST_RETRIES
       THEN /\ pc' = "posting"
            /\ posts' = posts + 1
            /\ UNCHANGED result
       ELSE /\ pc' = "classify"
            /\ result' = Failed(MsgNoAttempt)
            /\ UNCHANGED posts
    /\ UNCHANGED << batch_size, j, batch_summary, payload, attempt, sleeps,
                    received, naps, visits, outcomes, accepted, reply,
                    last_status, racers, idcheck >>
    /\ UNCHANGED ledgerVars
    /\ UNCHANGED runVars
    /\ UNCHANGED sourceVars

\* send_vehicle_data: the answer to the POST arrives and is handled
Respond(answers) ==
    /\ pc = "posting"
    /\ \E r \in answers :
          LET o == AttemptOutcome(r, attempt)
          IN  /\ received' = Append(received, r)
              /\ IF o.returns
                 THEN /\ result' = o.result
                      /\ pc' = "classify"
                      /\ UNCHANGED << attempt, sleeps >>
                 ELSE /\ sleeps' = Append(sleeps, o.sleep)
                      /\ attempt' = attempt + 1
                      /\ pc' = "send"
                      /\ UNCHANGED result
    /\ UNCHANGED << batch_size, j, batch_summary, payload, naps, posts,
                    visits, outcomes, accepted, reply, last_status, racers,
                    idcheck >>
    /\ UNCHANGED ledgerVars
    /\ UNCHANGED runVars
    /\ UNCHANGED sourceVars

\* mutant: the success branch is not taken
ClassificationNoSuccess(res) ==
    IF is_duplicate_error(res.error) THEN "duplicate" ELSE "failed"

\* the branch _process_batch takes on the result of send_vehicle_data
Classification(res) ==
    IF res.success THEN "success"
    ELSE IF is_duplicate_error(res.error) THEN "duplicate"
    ELSE "failed"

\* _process_batch: the result is classified, counted and saved in a ledger
Classify(maxFailures) ==
    /\ pc = "classify"
    /\ LET id   == Current.record_id
           data == Current.record_data
           kind == Classification(result)
       IN  /\ outcomes' = Append(outcomes, kind)
           /\ \E writes \in WriteChoices(maxFailures) :
                /\ writeFailures' = IF writes THEN writeFailures
                                    ELSE writeFailures + 1
                /\ pc' = AfterSave(writes)
                /\ IF kind = "failed"
                   THEN /\ failed_file' = save_failed_record(failed_file, id, data,
                                              error_or_unknown(result.error),
                                              clock, writes)
                        /\ lastSave' = [op |-> "failed", id |-> id,
                                        present |-> FALSE, written |-> writes]
                        /\ UNCHANGED << processed_file, accepted >>
                   ELSE /\ processed_file' = save_processed_record(processed_file,
                                                 id, data, clock, writes)
                        /\ lastSave' = [op |-> "processed", id |-> id,
                                        present |-> InSeq(id,
                                            get_processed_records(processed_file)),
                                        written |-> writes]
                        /\ accepted' = [accepted EXCEPT ![id] = @ + 1]
                        /\ UNCHANGED failed_file
           /\ batch_summary' =
                CASE kind = "success" ->
                       [batch_summary EXCEPT !.processed_successfully = @ + 1]
                  [] kind = "duplicate" ->
                       [batch_summary EXCEPT !.skipped_duplicates = @ + 1]
                  [] OTHER ->
                       [batch_summary EXCEPT
                          !.failed_records = @ + 1,
                          !.errors = Append(@, MsgProcessing \o id \o MsgColon
                                               \o result.error)]
    /\ clock' = clock + 1
    /\ naps' = naps + 1
    /\ payload' = <<>>
    /\ j' = NextJ
    /\ UNCHANGED << batch_size, attempt, result, sleeps, received, posts,
                    visits, reply, last_status, racers, idcheck >>
    /\ UNCHANGED runVars
    /\ UNCHANGED sourceVars

\* mutant: the pause is taken after the last batch as well
PauseDueAlways == TRUE

\* if i + self.batch_size < len(unprocessed_records): time.sleep(1)
PauseDue == i + batch_size < Len(unprocessed)

\* range(0, len(unprocessed_records), self.batch_size) has a next value
MoreBatches == i + batch_size < Len(unprocessed)

\* _process_batch returns: the batch is added to the summary, the pause is
\* taken when it is due, then either the next batch or the end of the run
EndBatch ==
    /\ pc = "endbatch"
    /\ summary' = [summary EXCEPT
          !.processed_successfully = @ + batch_summary.processed_successfully,
          !.failed_records = @ + batch_summary.failed_records,
          !.skipped_duplicates = @ + batch_summary.skipped_duplicates,
          !.errors = @ \o batch_summary.errors]
    /\ pauses' = IF PauseDue THEN pauses + 1 ELSE pauses
    /\ IF MoreBatches
       THEN /\ i' = i + batch_size
            /\ pc' = "batch"
            /\ UNCHANGED reply
       ELSE /\ pc' = "done"
            /\ reply' = process_vehicles(Returned(summary'))
            /\ UNCHANGED i
    /\ UNCHANGED << batch_size, run, unprocessed, j, batch_summary, naps,
                    posts, visits, outcomes, accepted, last_status, racers,
                    idcheck >>
    /\ UNCHANGED ledgerVars
    /\ UNCHANGED sendVars
    /\ UNCHANGED sourceVars

\* GET /api/status between two runs: get_processing_status reads the CSV
\* file and the processed ledger and returns its dict
GetStatus ==
    /\ pc \in {"idle", "done"}
    /\ last_status' = [asked |-> TRUE,
                  dict |-> get_processing_status(TheCsv, processed_file)]
    /\ UNCHANGED << batch_size, j, batch_summary, naps, posts, visits,
                    outcomes, accepted, pc, reply, racers, idcheck >>
    /\ UNCHANGED ledgerVars
    /\ UNCHANGED sendVars
    /\ UNCHANGED runVars
    /\ UNCHANGED sourceVars

Next ==
    \/ StartRun(MaxRuns)
    \/ BeginBatch
    \/ FormatRecord(MaxWriteFailures)
    \/ StartAttempt
    \/ Respond(RunResponses)
    \/ Classify(MaxWriteFailures)
    \/ EndBatch

Spec == Init /\ [][Next]_vars

\* a processed ledger written by runs made while the CSV file was in order
OldLedger ==
    save_processed_record(NoProcessedFile, create_record_id(RowKia), RowKia,
                          0, TRUE)

\* runs and status requests, one at a time; the CSV file may have gone, or
\* lost a column, after earlier runs wrote the ledger
InitStatus ==
    \/ Init
    \/ InitOn({Missing} \cup Headless(CsvFiles), {SmallBatch, BATCH_SIZE},
              {OldLedger}, {NoFailedFile})


NextStatus ==
    \/ StartRun(MaxRuns)
    \/ BeginBatch
    \/ FormatRecord(MaxWriteFailures)
    \/ StartAttempt
    \/ Respond(StatusResponses)
    \/ Classify(MaxWriteFailures)
    \/ EndBatch
    \/ GetStatus

SpecStatus == InitStatus /\ [][NextStatus]_vars

(* ---------------------- record ids of pairs of rows --------------------- *)
\* rows that differ in the key fields and in the spelling of Brand and Model
IdRows ==
    { Row(t, b, m, <<"7",".","5">>, <<"C","1">>, f, <<"6","0">>) :
        t \in { <<"T","1">>, <<"T","2">> },
        b \in { <<"f","o","r","d">>, <<"F","O","R","D">>,
                <<" ","F","o","r","d"," ">>, <<"F","i","a","t">> },
        m \in { <<"F","o","c","u","s">>, <<"F","O","C","U","S"," ">>,
                <<"U","n","o">> },
        f \in { <<"F","1">>, <<"F","2">> } }
    \cup
    \* Brand and Model with the "_" of the join in them
    { Row(<<"T","1">>, bm[1], bm[2], <<"7",".","5">>, <<"C","1">>, <<"F","1">>,
          <<"6","0">>) :
        bm \in { << <<"A","_","B">>, <<"C">> >>,
                 << <<"A">>, <<"B","_","C">> >> } }

InitId ==
    /\ InitRun(Healthy({<<>>}), {BATCH_SIZE}, {NoProcessedFile}, {NoFailedFile})
    /\ racers = NoRacers
    /\ \E r1 \in IdRows, r2 \in IdRows :
          idcheck = [stage |-> "rows", r1 |-> r1, r2 |-> r2,
                     id1 |-> <<>>, id2 |-> <<>>, offered |-> <<>>]

idRest == << batch_size, processed_file, failed_file, clock, run, pc,
             unprocessed, i, j, summary, batch_summary, payload, attempt,
             result, sleeps, naps, pauses, received, posts, visits, outcomes,
             accepted, writeFailures, lastSave, reply, last_status, racers >>

\* create_record_id is applied to both rows
ComputeIds ==
    /\ idcheck.stage = "rows"
    /\ idcheck' = [idcheck EXCEPT !.stage = "ids",
                                  !.id1 = create_record_id(idcheck.r1),
                                  !.id2 = create_record_id(idcheck.r2)]
    /\ UNCHANGED idRest
    /\ UNCHANGED sourceVars

\* the first row is saved as processed in an empty ledger, then
\* get_unprocessed_records is applied to a CSV file of the second row
FilterSecond ==
    /\ idcheck.stage = "ids"
    /\ LET ledger == save_processed_record(NoProcessedFile, idcheck.id1,
                                           idcheck.r1, 0, TRUE)
           file == CsvSource(TRUE,
                      {required_columns[k] : k \in 1..Len(required_columns)},
                      <<idcheck.r2>>)
       IN  idcheck' = [idcheck EXCEPT
                          !.stage = "filtered",
                          !.offered = get_unprocessed_records(file, ledger).records]
    /\ UNCHANGED idRest
    /\ UNCHANGED sourceVars

NextId == ComputeIds \/ FilterSecond

SpecId == InitId /\ [][NextId]_vars

(* ---------------- runs over a ledger that cannot be read ---------------- *)
\* the processed ledger file exists and is not valid JSON; the failed ledger
\* is absent or in the same condition
InitCorrupt == InitOn(Healthy(CsvFiles), {BATCH_SIZE},
                      {CorruptProcessedFile}, {NoFailedFile, CorruptFailedFile})

NextCorrupt ==
    \/ StartRun(MaxRuns)
    \/ BeginBatch
    \/ FormatRecord(MaxWriteFailures)
    \/ StartAttempt
    \/ Respond(StatusResponses)
    \/ Classify(MaxWriteFailures)
    \/ EndBatch

SpecCorrupt == InitCorrupt /\ [][NextCorrupt]_vars

(* ------------------- one run over a longer CSV file -------------------- *)
\* row k of the longer file: the rows differ in IdVehicleType
PacingRow(k) == Row(IntToText(k), <<"K","i","a">>, <<"R","i","o">>,
                    <<"6">>, <<"C","1">>, <<"F","1">>, <<"4","5">>)
PacingFiles == { [k \in 1..n |-> PacingRow(k)] : n \in 0..MaxPacingRows }

InitPacing == InitWith(PacingFiles, {SmallBatch, BATCH_SIZE})

\* every record is accepted and every ledger write goes through
NextPacing ==
    \/ StartRun(1)
    \/ BeginBatch
    \/ FormatRecord(0)
    \/ StartAttempt
    \/ Respond({HttpResponse(200, TextNone)})
    \/ Classify(0)
    \/ EndBatch

SpecPacing == InitPacing /\ [][NextPacing]_vars

(* ------------ two overlapping runs (two POST /api/process) -------------- *)
\* every request builds its own VehicleDataProcessor and runs it in the
\* thread of the request; nothing serialises two requests
Racers == {1, 2}

\* the rows that are formatted without error and accepted by the remote
RaceFiles ==
    { f \in CsvFiles :
         \A k \in 1..Len(f) : ~HasNull(f[k]) /\ format_vehicle_data(f[k]).ok }

NewRacer == [pc |-> "idle", list |-> <<>>, k |-> 0,
             snap |-> NoProcessedFile, saved |-> {}]

InitRace ==
    /\ InitRun(Healthy(RaceFiles), {BATCH_SIZE}, {NoProcessedFile},
               {NoFailedFile})
    /\ racers = [p \in Racers |-> NewRacer]
    /\ idcheck = NoIdCheck

raceRest == << batch_size, failed_file, run, pc, unprocessed, i, j, summary,
               batch_summary, payload, attempt, result, sleeps, naps, pauses,
               received, posts, visits, outcomes, accepted, writeFailures,
               lastSave, reply, last_status, idcheck >>

\* mutant: the file is locked from the read to the write, so the write
\* works on the file as it is
ReadForWriteLocked(snapshot, current) == current

\* the processed_data the write of save_processed_record works on: what
\* json.load returned at the read, the file is not read again
ReadForWrite(snapshot, current) == snapshot

\* process_all_vehicles of run p loads its unprocessed records
RaceLoad(p) ==
    /\ racers[p].pc = "idle"
    /\ LET u == get_unprocessed_records(TheCsv, processed_file).records
       IN  racers' = [racers EXCEPT ![p] =
                        [@ EXCEPT !.list = u, !.k = 1,
                                  !.pc = IF u = <<>> THEN "end" ELSE "submit"]]
    /\ UNCHANGED << processed_file, clock >>
    /\ UNCHANGED raceRest
    /\ UNCHANGED sourceVars

\* run p formats and sends its record k and the remote accepts it
RaceSubmit(p) ==
    /\ racers[p].pc = "submit"
    /\ racers' = [racers EXCEPT ![p].pc = "read"]
    /\ UNCHANGED << processed_file, clock >>
    /\ UNCHANGED raceRest
    /\ UNCHANGED sourceVars

\* save_processed_record of run p, first half: json.load of the file
RaceRead(p) ==
    /\ racers[p].pc = "read"
    /\ racers' = [racers EXCEPT ![p] =
                     [@ EXCEPT !.snap = processed_file, !.pc = "write"]]
    /\ UNCHANGED << processed_file, clock >>
    /\ UNCHANGED raceRest
    /\ UNCHANGED sourceVars

\* save_processed_record of run p, second half: the id is added to the
\* data read and the file is written; then the next record or the end
RaceWrite(p) ==
    /\ racers[p].pc = "write"
    /\ LET r == racers[p]
           e == r.list[r.k]
       IN  /\ processed_file' =
                 save_processed_record(ReadForWrite(r.snap, processed_file),
                                       e.record_id, e.record_data, clock, TRUE)
           /\ racers' = [racers EXCEPT ![p] =
                 [@ EXCEPT !.saved = @ \cup {e.record_id},
                           !.k = IF r.k < Len(r.list) THEN r.k + 1 ELSE r.k,
                           !.pc = IF r.k < Len(r.list) THEN "submit" ELSE "end"]]
    /\ clock' = clock + 1
    /\ UNCHANGED raceRest
    /\ UNCHANGED sourceVars

NextRace ==
    \E p \in Racers : RaceLoad(p) \/ RaceSubmit(p) \/ RaceRead(p) \/ RaceWrite(p)

SpecRace == InitRace /\ [][NextRace]_vars

\* one CSV row, one run, every answer of the remote
InitOne == InitWith({f \in CsvFiles : Len(f) <= 1}, {BATCH_SIZE})

NextOne ==
    \/ StartRun(1)
    \/ BeginBatch
    \/ FormatRecord(MaxWriteFailures)
    \/ StartAttempt
    \/ Respond(AllResponses)
    \/ Classify(MaxWriteFailures)
    \/ EndBatch

SpecOne == InitOne /\ [][NextOne]_vars

(* ------------------------------ properties ----------------------------- *)
Last(s) == s[Len(s)]

NoRepeat(s) == \A a, b \in 1..Len(s) : a # b => s[a] # s[b]

\* the run has loaded its records and has not taken up any of them yet
NothingYet == outcomes = <<>> /\ \A k \in 1..Len(visits) : visits[k] = 0

\* send_vehicle_data has returned from its latest call
SendReturned == received # <<>> /\ pc \notin {"send", "posting"}

\* the latest record went through send_vehicle_data and has been classified
JustClassified == received # <<>> /\ pc \notin {"send", "posting", "classify"}

Is5xx(r) == r.kind = "http" /\ r.status >= 500 /\ r.status <= 599
Is4xx(r) == r.kind = "http" /\ r.status >= 400 /\ r.status <= 499
IsOk(r)  == r.kind = "http" /\ r.status \in {200, 201}
\* ServerError (HTTP 5xx or an unexpected status) or TransportError
Retryable(r) ==
    \/ r.kind \in {"timeout", "connection"}
    \/ r.kind = "http" /\ ~IsOk(r) /\ ~Is4xx(r)

StartsWith(t, prefix) ==
    Len(t) >= Len(prefix) /\ SubSeq(t, 1, Len(prefix)) = prefix

\* t contains the word in some spelling of capitals and small letters
EqIgnoreCase(a, b) ==
    Len(a) = Len(b) /\ \A k \in 1..Len(a) : UpperChar(a[k]) = UpperChar(b[k])
ContainsIgnoreCase(t, word) ==
    \E k \in 0..(Len(t) - Len(word)) :
        EqIgnoreCase(SubSeq(t, k + 1, k + Len(word)), word)

\* C1: idempotence across runs. With no failed ledger write, a record whose
\* outcome in an earlier run was Success or Duplicate is absent from the
\* unprocessed sequence a later run loads; when every record was accepted
\* before, the run loads nothing, ends at once and posts nothing.
C1_Idempotence ==
    (run >= 2 /\ writeFailures = 0) =>
       /\ NothingYet =>
            \A k \in 1..Len(unprocessed) : accepted[unprocessed[k].record_id] = 0
       /\ (NothingYet /\ \A id \in ValidIds : accepted[id] > 0) =>
            unprocessed = <<>>
       /\ unprocessed = <<>> => (pc = "done" /\ posts = 0)

\* a second run has loaded its records: one accepted before is left out,
\* another that failed before is offered again
C1_Witness ==
    /\ run = 2 /\ writeFailures = 0 /\ NothingYet
    /\ unprocessed # <<>>
    /\ \E id \in ValidIds : accepted[id] > 0

\* C2: at-most-once submission. No POST is in flight for a record whose id is
\* in the processed ledger at that moment, and no id gets a Success or
\* Duplicate outcome more than once over the runs.
C2_AtMostOnce ==
    /\ pc = "posting" =>
          ~InSeq(Current.record_id, get_processed_records(processed_file))
    /\ \A id \in ValidIds : accepted[id] <= 1

\* C3: sequential continue. Every entry of the unprocessed sequence of a run
\* is taken up exactly once, in order, whatever the outcomes before it; a
\* finished run has taken up and finished all of them.
C3_SequentialContinue ==
    /\ Len(visits) = Len(unprocessed)
    /\ \A k \in 1..Len(visits) : visits[k] <= 1
    /\ \A k \in 1..Len(visits) :
          visits[k] = 1 => \A m \in 1..k : visits[m] = 1
    /\ pc = "done" =>
          /\ \A k \in 1..Len(unprocessed) : visits[k] = 1
          /\ Len(outcomes) = Len(unprocessed)

\* a finished run whose first record failed at the remote, whose second
\* raised in the formatting, and whose third was still sent and accepted
C3_Witness ==
    /\ pc = "done"
    /\ outcomes = <<"failed", "exception", "success">>
    /\ \A k \in 1..Len(unprocessed) : visits[k] = 1

\* C4: server-error retry. A 5xx answer on an attempt that is not the last
\* is followed by another attempt; 5xx, 5xx, then 200/201 gives Success.
C4_ServerErrorRetry ==
    SendReturned =>
       /\ Is5xx(Last(received)) => Len(received) = REQUEST_RETRIES
       /\ ( /\ Len(received) = 3
            /\ Is5xx(received[1]) /\ Is5xx(received[2]) /\ IsOk(received[3]) )
          => result.success

\* C5: non-retryable outcomes return at once. Only a ServerError or a
\* TransportError is followed by another attempt; on a 409 or another 4xx the
\* call returns that failure with no wait after it.
C5_NonRetryableReturn ==
    /\ \A k \in 1..(Len(received) - 1) : Retryable(received[k])
    /\ pc = "send" => \A k \in 1..Len(received) : Retryable(received[k])
    /\ (SendReturned /\ Is4xx(Last(received))) =>
          /\ ~result.success
          /\ Len(sleeps) = Len(received) - 1
          /\ IF Last(received).status = 409
             THEN StartsWith(result.error, MsgDuplicate)
             ELSE StartsWith(result.error, MsgClient)

\* a 409 on the second attempt, after a timeout: returned with one wait only
C5_Witness ==
    /\ SendReturned
    /\ Len(received) = 2
    /\ received[1] = TimeoutRaised
    /\ received[2].status = 409
    /\ sleeps = <<1>>

\* what a failure says of the answer it is returned for
CarriesError(error, r) ==
    CASE r.kind = "http" ->
           Contains(error, IntToText(r.status)) /\ Contains(error, r.text)
      [] r.kind = "timeout" -> error = MsgTimeoutFinal
      [] r.kind = "connection" -> error = MsgConnectionFinal
      [] OTHER -> Contains(error, r.text)

\* C6: bounded retry with exponential backoff. One call makes from 1 to
\* REQUEST_RETRIES attempts; the wait after attempt a is 2^(a-1) seconds;
\* no wait follows the final attempt; when every attempt failed with a
\* retryable error the call returns a failure carrying the last error.
C6_BoundedBackoff ==
    /\ Len(received) <= REQUEST_RETRIES
    /\ attempt < REQUEST_RETRIES
    /\ \A a \in 1..Len(sleeps) : sleeps[a] = 2 ^ (a - 1)
    /\ pc = "send" => Len(sleeps) = Len(received)
    /\ pc = "posting" => Len(sleeps) = Len(received)
    /\ SendReturned =>
          /\ Len(received) >= 1
          /\ Len(sleeps) = Len(received) - 1
          /\ (\A k \in 1..Len(received) : Retryable(received[k])) =>
                (~result.success /\ CarriesError(result.error, Last(received)))

\* three attempts, waits of 1 and 2 seconds, the last error returned
C6_Witness ==
    /\ SendReturned
    /\ Len(received) = 3
    /\ received[1] = ConnectionRaised
    /\ received[3] = TimeoutRaised
    /\ sleeps = <<1, 2>>
    /\ result = Failed(MsgTimeoutFinal)

\* the result classified is a duplicate signal: a failure whose text holds
\* "duplicate" or "conflict" in any letter case, or "409", or a 409 answer
DuplicateSignal ==
    /\ ~result.success
    /\ \/ ContainsIgnoreCase(result.error, MarkDuplicate)
       \/ ContainsIgnoreCase(result.error, MarkConflict)
       \/ Contains(result.error, Mark409)
       \/ (received # <<>> /\ Last(received).kind = "http"
           /\ Last(received).status = 409)

\* C7: duplicate classification. On a duplicate signal the record is handed
\* to save_processed_record, skipped_duplicates grows by one, the other
\* counters, the error list and the failed ledger stay as they were.
C7_DuplicateClassification ==
    [][ (pc = "classify" /\ DuplicateSignal) =>
           /\ batch_summary' =
                 [batch_summary EXCEPT !.skipped_duplicates = @ + 1]
           /\ summary' = summary
           /\ failed_file' = failed_file
           /\ lastSave'.op = "processed"
           /\ lastSave'.id = Current.record_id
           /\ lastSave'.written =>
                 InSeq(Current.record_id, get_processed_records(processed_file'))
      ]_vars

\* a 404 whose body says DUPLICATE was counted as a skipped duplicate
C7_Witness ==
    /\ pc = "done"
    /\ outcomes = <<"duplicate">>
    /\ Last(received) = HttpResponse(404, TextDUPLICATE)
    /\ summary.skipped_duplicates = 1
    /\ summary.failed_records = 0
    /\ failed_file = NoFailedFile

\* C8: client errors are real failures. A record answered with a 4xx other
\* than 409, whatever the body, is saved with save_failed_record and its
\* outcome is a failure, not a skipped duplicate.
C8_ClientErrorsFail ==
    (JustClassified /\ Is4xx(Last(received)) /\ Last(received).status # 409) =>
       /\ Last(outcomes) = "failed"
       /\ lastSave.op = "failed"

\* C9: intra-load deduplication. The loaded unprocessed sequence holds each
\* id at most once; the CSV of RowFord, RowFORD and RowKia on an empty
\* ledger gives 2 entries.
C9_LoadDeduplicated ==
    run >= 1 =>
       /\ NoRepeat([k \in 1..Len(unprocessed) |-> unprocessed[k].record_id])
       /\ (run = 1 /\ csv = <<RowFord, RowFORD, RowKia>>) => Len(unprocessed) = 2

\* the processed ledger holds no id twice and one entry per id
C10_LedgerIsSet ==
    /\ NoRepeat(processed_file.processed_ids)
    /\ Len(processed_file.records) = Len(processed_file.processed_ids)
    /\ \A k \in 1..Len(processed_file.records) :
          processed_file.records[k].id = processed_file.processed_ids[k]

\* C10: save_processed_record is an idempotent insert. The processed ledger
\* never holds an id twice nor two entries of one id, and a call with an id
\* that is in the ledger leaves ids and entries (timestamps too) as they were.
C10_IdempotentInsert ==
    /\ []C10_LedgerIsSet
    /\ [][ ( /\ clock' = clock + 1
             /\ lastSave'.op = "processed"
             /\ InSeq(lastSave'.id, get_processed_records(processed_file)) )
           => processed_file' = processed_file ]_vars

\* save_processed_record was called, and wrote, for an id already there
C10_Witness ==
    /\ lastSave.op = "processed"
    /\ lastSave.present
    /\ lastSave.written
    /\ Len(processed_file.processed_ids) >= 1

\* a step in which save_failed_record is called
FailedSaveStep == clock' = clock + 1 /\ lastSave'.op = "failed"

\* a step in which save_processed_record is called
ProcessedSaveStep == clock' = clock + 1 /\ lastSave'.op = "processed"

\* C11: the failed ledger is append-only. Every save_failed_record call whose
\* write goes through adds exactly one entry at the end, for the id of the
\* call, and leaves the earlier entries as they were, also when the id has
\* failed before or is in the processed ledger.
C11_FailedAppendOnly ==
    [][ (FailedSaveStep /\ lastSave'.written) =>
           /\ Len(failed_file'.failed_records)
                 = Len(failed_file.failed_records) + 1
           /\ SubSeq(failed_file'.failed_records, 1,
                     Len(failed_file.failed_records))
                 = failed_file.failed_records
           /\ Last(failed_file'.failed_records).id = lastSave'.id
           /\ processed_file' = processed_file
      ]_vars

\* the only record of the CSV failed in both runs: two entries of its id,
\* with different times
C11_Witness ==
    /\ Len(dropna(csv)) = 1
    /\ run = 2
    /\ Len(failed_file.failed_records) = 2
    /\ failed_file.failed_records[1].id = failed_file.failed_records[2].id
    /\ failed_file.failed_records[1].failed_at
          # failed_file.failed_records[2].failed_at

\* C12: the processed ledger grows monotonically. Over the runs and status
\* requests made one at a time (loading, save_processed_record,
\* save_failed_record, get_processing_status), every id of the processed
\* ledger before a step is in it after the step.
C12_ProcessedMonotone ==
    [][ \A k \in 1..Len(processed_file.processed_ids) :
           InSeq(processed_file.processed_ids[k], processed_file'.processed_ids)
      ]_vars

\* a second run added a second id to the ledger, a record failed on the
\* way, and the status was asked for afterwards
C12_Witness ==
    /\ run = 2
    /\ pc = "done"
    /\ Len(processed_file.processed_ids) = 2
    /\ Len(failed_file.failed_records) >= 1
    /\ outcomes # <<>>
    /\ last_status.asked

\* C13: lost update under overlapping runs. The write of
\* save_processed_record puts in the file the data its own read returned
\* plus its id, whatever another run wrote in between; so two runs can both
\* finish a save_processed_record call, for different ids, and leave a
\* ledger that holds only one of the two ids.
C13_UnguardedWrite ==
    [][ \A p \in Racers :
           (racers[p].pc = "write" /\ racers'[p].pc # "write") =>
              LET id == racers[p].list[racers[p].k].record_id
                  read == get_processed_records(racers[p].snap)
              IN  /\ processed_file'.processed_ids =
                        IF InSeq(id, read) THEN read ELSE Append(read, id)
                  /\ InSeq(id, processed_file'.processed_ids)
      ]_vars

\* both runs have finished a save_processed_record call, for different
\* ids, and the ledger holds one of the two ids only
C13_Witness ==
    \E a \in racers[1].saved, b \in racers[2].saved :
       /\ a # b
       /\ InSeq(b, processed_file.processed_ids)
       /\ ~InSeq(a, processed_file.processed_ids)

\* ceil(n / b)
CeilDiv(n, b) == (n + b - 1) \div b

\* C14: batch pacing. A run over n > 0 unprocessed records in batches of b
\* takes one pause of a second after each batch but the last, ceil(n/b) - 1
\* in all (2 for n = 25, b = 10); a run over no record takes none.
C14_BatchPacing ==
    LET n == Len(unprocessed)
        b == batch_size
    IN  /\ pc \in {"batch", "record", "send", "posting", "classify", "endbatch"}
              => pauses = i \div b
        /\ (run >= 1 /\ pc = "done") =>
              pauses = IF n = 0 THEN 0 ELSE CeilDiv(n, b) - 1
        /\ (run >= 1 /\ pc = "done" /\ n = 25 /\ b = 10) => pauses = 2

\* a finished run over 25 records in batches of 10, with its two pauses
C14_Witness ==
    /\ pc = "done"
    /\ Len(unprocessed) = 25
    /\ batch_size = 10
    /\ Len(outcomes) = 25
    /\ pauses = 2

\* the CSV file is missing or its header lacks a required column
DataSourceFails ==
    \/ ~csv_exists
    \/ \E k \in 1..Len(required_columns) : required_columns[k] \notin csv_columns

\* C15: a data-source failure changes nothing. When the CSV file is missing
\* or lacks a required column, a run submits no record, writes neither
\* ledger, and ends with total_records, processed_successfully,
\* failed_records and skipped_duplicates all 0.
C15_SourceFailureInert ==
    (DataSourceFails /\ run >= 1) =>
       /\ pc = "done"
       /\ unprocessed = <<>>
       /\ posts = 0
       /\ processed_file = NoProcessedFile
       /\ failed_file = NoFailedFile
       /\ lastSave = NoSave
       /\ summary.total_records = 0
       /\ summary.processed_successfully = 0
       /\ summary.failed_records = 0
       /\ summary.skipped_duplicates = 0

\* a run over a CSV file of three rows whose header lacks a column has ended
C15_Witness ==
    /\ run >= 1
    /\ pc = "done"
    /\ csv_exists
    /\ Len(dropna(csv)) = 3
    /\ DataSourceFails
    /\ posts = 0

\* the answer of POST /api/process is {"error": ...} with an error status
ErrorReply == reply.code >= 400 /\ "error" \in DOMAIN reply.json

\* C16: a data-source failure surfaces to the caller. A run over a missing
\* CSV file or one that lacks a required column is answered with
\* {"error": message} and an HTTP error status, not with a run summary; a
\* run whose CSV file is in order is answered with its summary, whatever
\* the errors of its records.
C16_SourceFailureSurfaces ==
    (run >= 1 /\ pc = "done") =>
       IF DataSourceFails
       THEN ErrorReply
       ELSE reply = [code |-> 200, json |-> summary]

\* a run that had a ledger write fail has still taken up every record and
\* returned its summary
C17_RunCompletes ==
    (pc = "done" /\ writeFailures > 0) =>
       /\ \A k \in 1..Len(unprocessed) : visits[k] = 1
       /\ Len(outcomes) = Len(unprocessed)
       /\ summary.processed_successfully + summary.failed_records
             + summary.skipped_duplicates = summary.total_records
       /\ reply = [code |-> 200, json |-> summary]

\* C17: a failed ledger write does not crash the run. When the write of
\* save_processed_record or save_failed_record fails, both ledgers stay as
\* they were, the record is counted as it was classified, the loop goes on
\* with the next record of the batch, and the run returns its summary with
\* every record attempted.
C17_WriteFailureSwallowed ==
    /\ []C17_RunCompletes
    /\ [][ ((FailedSaveStep \/ ProcessedSaveStep) /\ ~lastSave'.written) =>
              /\ processed_file' = processed_file
              /\ failed_file' = failed_file
              /\ Len(outcomes') = Len(outcomes) + 1
              /\ pc' = IF j < Len(Batch) THEN "record" ELSE "endbatch"
              /\ j < Len(Batch) => j' = j + 1
         ]_vars

\* the write for the first record, accepted by the remote, failed: its id
\* is not in the ledger; the two records after it were still sent and the
\* last one was saved
C17_Witness ==
    /\ pc = "done"
    /\ run = 1
    /\ writeFailures = 1
    /\ outcomes = <<"success", "failed", "success">>
    /\ ~InSeq(unprocessed[1].record_id, processed_file.processed_ids)
    /\ InSeq(unprocessed[3].record_id, processed_file.processed_ids)
    /\ Len(failed_file.failed_records) = 1

\* C18: ledger read failure policy. When the processed ledger file exists
\* and cannot be read, the loading fails with that error and so does the
\* run: no record is taken for not yet processed and none is submitted.
C18_LedgerReadFailure ==
    (processed_file.exists /\ processed_file.corrupt /\ run >= 1) =>
       /\ unprocessed = <<>>
       /\ posts = 0
       /\ pc = "done"
       /\ summary.errors # <<>>

\* the dict of a status request that failed: the error and four zeros
C19_ErrorStatus ==
    (last_status.asked /\ DataSourceFails) =>
       /\ "error" \in DOMAIN last_status.dict
       /\ last_status.dict.total_records = 0
       /\ last_status.dict.processed_records = 0
       /\ last_status.dict.pending_records = 0
       /\ last_status.dict.completion_percentage.count = 0

\* C19: status reporting fails gracefully. A status request over a CSV file
\* that cannot be loaded returns a dict with the error and with
\* total_records, processed_records, pending_records and
\* completion_percentage all 0; every status request returns a dict, and
\* none changes a ledger.
C19_StatusFailsGracefully ==
    /\ []C19_ErrorStatus
    /\ [][ (last_status'.asked /\ last_status' # last_status) =>
              /\ "total_records" \in DOMAIN last_status'.dict
              /\ pc' = pc
              /\ processed_file' = processed_file
              /\ failed_file' = failed_file ]_vars

\* the status was asked for while the CSV file was missing and the ledger
\* held an id
C19_Witness ==
    /\ last_status.asked
    /\ ~csv_exists
    /\ Len(processed_file.processed_ids) = 1
    /\ "error" \in DOMAIN last_status.dict

\* the text between the first and the last character that is not a blank
Trimmed(t) ==
    LET solid == { k \in 1..Len(t) : t[k] # " " }
    IN  IF solid = {} THEN <<>>
        ELSE SubSeq(t, CHOOSE a \in solid : \A k \in solid : a <= k,
                       CHOOSE b \in solid : \A k \in solid : k <= b)

\* the two rows agree in IdVehicleType, IdCompany and IdFuelMaster, and in
\* Brand and Model up to surrounding blanks and letter case
SameBusinessKey(r1, r2) ==
    /\ r1.IdVehicleType = r2.IdVehicleType
    /\ r1.IdCompany = r2.IdCompany
    /\ r1.IdFuelMaster = r2.IdFuelMaster
    /\ EqIgnoreCase(Trimmed(r1.Brand), Trimmed(r2.Brand))
    /\ EqIgnoreCase(Trimmed(r1.Model), Trimmed(r2.Model))

\* C20: record identity is insensitive to letter case and surrounding
\* blanks of Brand and Model. Two rows that agree in the other three key
\* fields and in Brand and Model after trimming and upper-casing get the
\* same id, so a row is not offered by the loading once a row of any such
\* spelling is in the processed ledger.
C20_IdentityInsensitive ==
    (idcheck.stage \in {"ids", "filtered"}
        /\ SameBusinessKey(idcheck.r1, idcheck.r2)) =>
       /\ idcheck.id1 = idcheck.id2
       /\ idcheck.stage = "filtered" => idcheck.offered = <<>>

\* "ford"/"Focus" was saved as processed and " Ford "/"FOCUS " is not
\* offered
C20_Witness ==
    /\ idcheck.stage = "filtered"
    /\ idcheck.r1.Brand = <<"f","o","r","d">>
    /\ idcheck.r1.Model = <<"F","o","c","u","s">>
    /\ idcheck.r2.Brand = <<" ","F","o","r","d"," ">>
    /\ idcheck.r2.Model = <<"F","O","C","U","S"," ">>
    /\ idcheck.id1 = idcheck.id2
    /\ idcheck.offered = <<>>

\* the step counts one failure, adds one error string and one failed-ledger
\* entry for the record at hand, and leaves the processed ledger alone
RoutedToFailed ==
    /\ lastSave'.op = "failed"
    /\ lastSave'.id = Current.record_id
    /\ lastSave'.written =>
          /\ Len(failed_file'.failed_records)
                = Len(failed_file.failed_records) + 1
          /\ Last(failed_file'.failed_records).id = Current.record_id
    /\ ~lastSave'.written => failed_file' = failed_file
    /\ processed_file' = processed_file
    /\ batch_summary'.failed_records = batch_summary.failed_records + 1
    /\ Len(batch_summary'.errors) = Len(batch_summary.errors) + 1
    /\ SubSeq(batch_summary'.errors, 1, Len(batch_summary.errors))
          = batch_summary.errors
    /\ batch_summary'.processed_successfully
          = batch_summary.processed_successfully
    /\ batch_summary'.skipped_duplicates = batch_summary.skipped_duplicates

\* C21: per-record ledger routing and frame. A record the remote accepted
\* is saved in the processed ledger and counted under
\* processed_successfully, with the failed ledger and the error list left
\* alone; a record that failed without a duplicate signal, or whose
\* formatting raised, gets one failed-ledger entry, one count under
\* failed_records and one error string, with the processed ledger left
\* alone; a record whose formatting raised is never posted.
C21_LedgerRouting ==
    [][ /\ (pc = "classify" /\ result.success) =>
              /\ lastSave'.op = "processed"
              /\ lastSave'.id = Current.record_id
              /\ lastSave'.written =>
                    InSeq(Current.record_id, processed_file'.processed_ids)
              /\ failed_file' = failed_file
              /\ batch_summary' =
                    [batch_summary EXCEPT !.processed_successfully = @ + 1]
        /\ (pc = "classify" /\ ~result.success /\ ~DuplicateSignal) =>
              RoutedToFailed
        /\ (pc = "record" /\ ~format_vehicle_data(Current.record_data).ok) =>
              /\ RoutedToFailed
              /\ posts' = posts
              /\ pc' \in {"record", "endbatch"}
      ]_vars

\* one run took an accepted record, one whose formatting raised and one
\* the remote rejected: one id in the processed ledger, two entries in the
\* failed ledger, two error strings, two requests
C21_Witness ==
    /\ pc = "done"
    /\ run = 1
    /\ writeFailures = 0
    /\ outcomes = <<"success", "exception", "failed">>
    /\ Len(processed_file.processed_ids) = 1
    /\ Len(failed_file.failed_records) = 2
    /\ summary.processed_successfully = 1
    /\ summary.failed_records = 2
    /\ Len(summary.errors) = 2
    /\ posts = 2

\* C22: strictly sequential, ordered processing. The batches are the
\* contiguous slices of batch_size records of the unprocessed sequence
\* (only the last may be shorter, none is empty); a record is taken up,
\* and posted, only when every record before it has been classified and
\* its ledger call made, and a batch begins only when every record of the
\* batches before it is finished.
C22_SequentialOrdered ==
    /\ pc \in {"batch", "record", "send", "posting", "classify", "endbatch"} =>
          /\ i % batch_size = 0
          /\ i < Len(unprocessed)
          /\ Len(Batch) >= 1
          /\ Len(Batch) <= batch_size
          /\ Len(Batch) < batch_size => i + Len(Batch) = Len(unprocessed)
          /\ \A k \in 1..Len(Batch) : Batch[k] = unprocessed[i + k]
    /\ pc = "batch" =>
          /\ Len(outcomes) = i
          /\ \A m \in 1..Len(visits) : visits[m] = IF m <= i THEN 1 ELSE 0
    /\ pc \in {"record", "send", "posting", "classify"} =>
          /\ j \in 1..Len(Batch)
          /\ Len(outcomes) = i + j - 1
          /\ \A m \in 1..(i + j - 1) : visits[m] = 1
          /\ \A m \in (i + j + 1)..Len(visits) : visits[m] = 0
          /\ visits[i + j] = IF pc = "record" THEN 0 ELSE 1
          /\ i + j > 1 => /\ lastSave.op # "none"
                          /\ lastSave.id = unprocessed[i + j - 1].record_id
    /\ pc = "endbatch" =>
          /\ Len(outcomes) = i + Len(Batch)
          /\ \A m \in 1..Len(visits) :
                visits[m] = IF m <= i + Len(Batch) THEN 1 ELSE 0

\* the third record, the first of the second batch, is being posted: the
\* two records of the first batch are finished
C22_Witness ==
    /\ pc = "posting"
    /\ batch_size = 2
    /\ Len(unprocessed) = 3
    /\ i = 2
    /\ j = 1
    /\ Len(outcomes) = 2
    /\ pauses = 1

\* the id is in the failed ledger
InFailedLedger(id) ==
    \E k \in 1..Len(failed_file.failed_records) :
        failed_file.failed_records[k].id = id

\* C23: resumability. At the start of every run over a CSV file in order,
\* the unprocessed sequence is made of exactly the cleaned rows whose id is
\* not in the processed ledger, in row order; a record that is in the
\* failed ledger only is among them, however often it failed.
C23_Resumable ==
    (run >= 1 /\ ~DataSourceFails /\ NothingYet) =>
       /\ [k \in 1..Len(unprocessed) |-> unprocessed[k].record_data]
             = SelectSeq(dropna(csv),
                         LAMBDA r : ~InSeq(create_record_id(r),
                                           processed_file.processed_ids))
       /\ \A k \in 1..Len(unprocessed) :
             unprocessed[k].record_id
                = create_record_id(unprocessed[k].record_data)
       /\ \A id \in ValidIds :
             (InFailedLedger(id) /\ ~InSeq(id, processed_file.processed_ids))
                => \E k \in 1..Len(unprocessed) : unprocessed[k].record_id = id

\* second run, no write has failed: one record of the CSV was left out as
\* processed and the one being posted failed in the first run
C23_Witness ==
    /\ run = 2
    /\ writeFailures = 0
    /\ pc = "posting"
    /\ Len(unprocessed) < Len(dropna(csv))
    /\ InFailedLedger(Current.record_id)
    /\ ~InSeq(Current.record_id, processed_file.processed_ids)

\* the three outcome counters of a summary, added up
CounterSum(s) ==
    s.processed_successfully + s.failed_records + s.skipped_duplicates

\* how many of the outcomes of the run are of the kinds given
OutcomeCount(kinds) ==
    Cardinality({ k \in 1..Len(outcomes) : outcomes[k] \in kinds })

\* C24: counter conservation. In a run that loaded the CSV file, the
\* counters of the summary and of the batch at hand add up to the number
\* of records finished so far, each finished record under exactly one
\* counter; the summary returned has total_records = processed_successfully
\* + failed_records + skipped_duplicates and one error string per failure.
C24_CounterConservation ==
    (run >= 1 /\ ~DataSourceFails) =>
       /\ summary.total_records = Len(unprocessed)
       /\ pc \in {"batch", "done"} =>
             /\ CounterSum(summary) = Len(outcomes)
             /\ summary.processed_successfully = OutcomeCount({"success"})
             /\ summary.skipped_duplicates = OutcomeCount({"duplicate"})
             /\ summary.failed_records = OutcomeCount({"failed", "exception"})
             /\ Len(summary.errors) = summary.failed_records
       /\ pc \in {"record", "send", "posting", "classify", "endbatch"} =>
             /\ CounterSum(summary) + CounterSum(batch_summary) = Len(outcomes)
             /\ summary.processed_successfully
                   + batch_summary.processed_successfully
                   = OutcomeCount({"success"})
             /\ summary.skipped_duplicates + batch_summary.skipped_duplicates
                   = OutcomeCount({"duplicate"})
             /\ summary.failed_records + batch_summary.failed_records
                   = OutcomeCount({"failed", "exception"})
             /\ Len(batch_summary.errors) = batch_summary.failed_records
             /\ Len(summary.errors) = summary.failed_records
       /\ pc = "done" =>
             /\ summary.total_records = CounterSum(summary)
             /\ reply.json = summary

\* a finished run of two batches with one record under each counter
C24_Witness ==
    /\ pc = "done"
    /\ batch_size = 2
    /\ summary.total_records = 3
    /\ summary.processed_successfully = 1
    /\ summary.failed_records = 1
    /\ summary.skipped_duplicates = 1
    /\ Len(summary.errors) = 1

\* C25: status bounds. The dict of a status request that did not fail has
\* a completion_percentage from 0 to 100, processed_records <=
\* total_records, and a completion_percentage of 100 exactly when
\* pending_records = 0 and total_records > 0, also when two rows of the CSV
\* file have one id.  (completion_percentage is count / of * 100.)
C25_StatusBounds ==
    (last_status.asked /\ "error" \notin DOMAIN last_status.dict) =>
       LET d == last_status.dict
           pct == d.completion_percentage
       IN  /\ pct.count >= 0
           /\ pct.count <= pct.of
           /\ d.processed_records <= d.total_records
           /\ (pct.count = pct.of)
                 <=> (d.pending_records = 0 /\ d.total_records > 0)

\* C26: record identity is injective on the normalised business key. Two
\* rows with one id agree in IdVehicleType, IdCompany and IdFuelMaster and
\* in Brand and Model after trimming and upper-casing, also when a field
\* holds a "_"; so a row is still offered by the loading when the ledger
\* holds the id of a row with another business key.
C26_IdentityInjective ==
    /\ (idcheck.stage \in {"ids", "filtered"} /\ idcheck.id1 = idcheck.id2)
          => SameBusinessKey(idcheck.r1, idcheck.r2)
    /\ (idcheck.stage = "filtered"
           /\ ~SameBusinessKey(idcheck.r1, idcheck.r2))
          => idcheck.offered # <<>>

====
